---- MODULE Spec2Model ----
(***************************************************************************)
(* Health-record versioning and conflict-resolution engine                 *)
(* (backend/app/records/service.py, HealthRecordsService).                 *)
(*                                                                         *)
(* Every service method is a coroutine: it runs synchronously up to its    *)
(* next `await` on the document store, and other request handlers run      *)
(* between two awaits.  One action of the model is one awaited store       *)
(* operation (its effect on the store) followed by the synchronous code    *)
(* that runs up to the next await.  pc[p] names the store operation that   *)
(* handler p is waiting for.  The consultation sessions                    *)
(* (backend/app/consultation/service.py) and the storage clearing of the   *)
(* settings service are modelled the same way further down.                *)
(***************************************************************************)
EXTENDS Integers, Sequences, FiniteSets, TLC

(***************************************************************************)
(* Bounds                                                                  *)
(***************************************************************************)
MaxVersion == 2
MaxClock == 2
MaxRecords == 2
MaxCalls == 2
MaxConcurrentCalls == 3
MaxLifeCalls == 3
MaxListed == 3
MaxConsultations == 2
MaxConsultCalls == 3

Procs == {"h1", "h2"}
Users == {"u1", "u2"}
RecordTypes == {"medical_history", "prescription"}

NoUser == "none"
NoTime == 0
NoId == 0

PA == [k \in {"a"} |-> 1]
PB == [k \in {"a", "b"} |-> 2]
PC == [k \in {"b"} |-> 1]
\* a payload whose keys are the names of fields of the document
PKeys == [k \in {"id", "user_id", "created_at"} |-> 2]

CreateVersions == 0..MaxVersion
UpdateVersions == 1..MaxVersion
ChosenVersions == 1..MaxVersion
RecordIds == 1..MaxRecords

VARIABLES records, audit, nextId, now, calls, pc, args, local, result,
          consultations

vars == <<records, audit, nextId, now, calls, pc, args, local, result,
          consultations>>

(***************************************************************************)
(* Helpers                                                                 *)
(***************************************************************************)
Max(S) == CHOOSE x \in S : \A y \in S : y <= x

\* datetime.utcnow(): a reading of the wall clock taken at or after `from`
Times(from) == {t \in from..(from + 1) : t <= MaxClock}

\* {**old, **patch}
Merge(old, patch) ==
    [k \in (DOMAIN old) \cup (DOMAIN patch) |->
        IF k \in DOMAIN patch THEN patch[k] ELSE old[k]]

\* doc.to_dict() with record_data["id"] = doc.id
View(store, rid) == [id |-> rid, doc |-> store[rid]]

NoLocal == [kind |-> "none"]
NoResult == [kind |-> "none"]
NotFound == [kind |-> "notfound"]
StoreError == [kind |-> "error"]

NoArgs ==
    [op |-> "none", user |-> NoUser, rid |-> NoId, rtype |-> "none",
     cv |-> 0, data |-> PA, soft |-> TRUE, chosen |-> 0,
     created_by |-> NoUser, page |-> 1, page_size |-> 1,
     include_deleted |-> FALSE]

(***************************************************************************)
(* Requests.  u1 is the patient whose requests take every value of the     *)
(* bounded sets; u2 is a second account with one request of each kind.     *)
(* The routes build the payload of a new record from its type.             *)
(***************************************************************************)
PayloadOf(ty) == IF ty = "prescription" THEN PB ELSE PA
AuthorOf(u, ty) == IF ty = "prescription" THEN "dr" ELSE u

CreateArgs(u, ty, cv) ==
    [NoArgs EXCEPT !.op = "create", !.user = u, !.rtype = ty, !.cv = cv,
                   !.data = PayloadOf(ty), !.created_by = AuthorOf(u, ty)]
CreateInputs ==
    {CreateArgs("u1", ty, cv) : ty \in RecordTypes, cv \in CreateVersions}
        \cup {CreateArgs("u2", "medical_history", 1)}

UpdateArgs(u, rid, cv, d) ==
    [NoArgs EXCEPT !.op = "update", !.user = u, !.rid = rid, !.cv = cv, !.data = d]
UpdateInputs ==
    {UpdateArgs("u1", rid, cv, d) : rid \in RecordIds, cv \in UpdateVersions, d \in {PA, PC}}
        \cup {UpdateArgs("u2", rid, MaxVersion, PC) : rid \in RecordIds}

DeleteArgs(u, rid, soft) ==
    [NoArgs EXCEPT !.op = "delete", !.user = u, !.rid = rid, !.soft = soft]
DeleteInputs ==
    {DeleteArgs(u, rid, soft) : u \in Users, rid \in RecordIds, soft \in BOOLEAN}

ResolveArgs(u, rid, ch, d) ==
    [NoArgs EXCEPT !.op = "resolve", !.user = u, !.rid = rid, !.chosen = ch, !.data = d]
ResolveInputs ==
    {ResolveArgs("u1", rid, ch, PC) : rid \in RecordIds, ch \in ChosenVersions}
        \cup {ResolveArgs("u2", rid, 1, PC) : rid \in RecordIds}

GetInputs ==
    {[NoArgs EXCEPT !.op = "get", !.user = u, !.rid = rid] : u \in Users, rid \in RecordIds}

ListArgs(u, ty, pg, ps, incl) ==
    [NoArgs EXCEPT !.op = "list", !.user = u, !.rtype = ty, !.page = pg,
                   !.page_size = ps, !.include_deleted = incl]
ListInputs ==
    {ListArgs("u1", ty, pg, ps, incl) :
        ty \in {"none", "medical_history"}, pg \in 1..2, ps \in 1..2, incl \in BOOLEAN}
        \cup {ListArgs("u2", "none", 1, 2, FALSE)}

PendingInputs == {[NoArgs EXCEPT !.op = "pending", !.user = u] : u \in Users}

\* get_record: the document, or None when it is absent or owned by someone else
GetRecordLiveMut(store, rid, user) ==
    IF rid \notin DOMAIN store THEN NotFound
    ELSE IF store[rid].user_id # user \/ store[rid].is_deleted THEN NotFound
    ELSE [kind |-> "record", record |-> View(store, rid)]
GetRecordMut(store, rid, user) ==
    IF rid \notin DOMAIN store THEN NotFound
    ELSE [kind |-> "record", record |-> View(store, rid)]
GetRecord(store, rid, user) ==
    IF rid \notin DOMAIN store THEN NotFound
    ELSE IF store[rid].user_id # user THEN NotFound
    ELSE [kind |-> "record", record |-> View(store, rid)]

Init ==
    /\ records = <<>>
    /\ audit = <<>>
    /\ nextId = 1
    /\ now = 1
    /\ calls = 0
    /\ pc = [p \in Procs |-> "idle"]
    /\ args = [p \in Procs |-> NoArgs]
    /\ local = [p \in Procs |-> NoLocal]
    /\ result = [p \in Procs |-> NoResult]
    /\ consultations = <<>>

\* A finished handler returns `res` to its caller
Return(p, res) ==
    /\ pc' = [pc EXCEPT ![p] = "idle"]
    /\ result' = [result EXCEPT ![p] = res]
    /\ local' = [local EXCEPT ![p] = NoLocal]

\* A handler moves on to wait for its next store operation
Goto(p, label, loc) ==
    /\ pc' = [pc EXCEPT ![p] = label]
    /\ local' = [local EXCEPT ![p] = loc]
    /\ result' = result

\* _create_audit_entry builds audit_data; the awaited add() commits it later
AuditDataMut(rid, action, user, data, t) ==
    [record_id |-> rid, action |-> action, user_id |-> user, data |-> data,
     timestamp |-> NoTime]
AuditData(rid, action, user, data, t) ==
    [record_id |-> rid, action |-> action, user_id |-> user, data |-> data,
     timestamp |-> t]

(***************************************************************************)
(* create_record                                                           *)
(***************************************************************************)
\* line 48: the shadow check runs only for client_version > 1
NeedsShadowCheckMut(cv) == cv >= 1
NeedsShadowCheck(cv) == cv > 1

\* lines 50-57: the non-deleted records of this owner and type
ShadowSet(store, user, rtype) ==
    {r \in DOMAIN store :
        /\ store[r].user_id = user
        /\ store[r].record_type = rtype
        /\ store[r].is_deleted = FALSE}

\* order_by version DESCENDING, limit 1
LatestVersion(store, user, rtype) ==
    Max({store[r].version : r \in ShadowSet(store, user, rtype)})

\* line 62
CreateConflictMut(cv, latest) == cv < latest
CreateConflict(cv, latest) == cv <= latest

\* lines 60-69
ShadowConflict(store, a) ==
    /\ ShadowSet(store, a.user, a.rtype) # {}
    /\ CreateConflict(a.cv, LatestVersion(store, a.user, a.rtype))

CreateConflictResult(store, a) ==
    [kind |-> "conflict", id |-> NoId,
     server_version |-> LatestVersion(store, a.user, a.rtype),
     client_version |-> a.cv]

\* lines 72-82
RecordDataMut(a, t1, t2) ==
    [user_id |-> a.user, record_type |-> a.rtype, data |-> a.data,
     version |-> a.cv, created_at |-> t1, updated_at |-> t2,
     created_by |-> IF a.created_by = NoUser THEN a.user ELSE a.created_by,
     is_deleted |-> FALSE, sync_status |-> "pending",
     deleted_at |-> NoTime, conflict_resolved_at |-> NoTime]
RecordData(a, t1, t2) ==
    [user_id |-> a.user, record_type |-> a.rtype, data |-> a.data,
     version |-> a.cv, created_at |-> t1, updated_at |-> t2,
     created_by |-> IF a.created_by = NoUser THEN a.user ELSE a.created_by,
     is_deleted |-> FALSE, sync_status |-> "synced",
     deleted_at |-> NoTime, conflict_resolved_at |-> NoTime]

\* lines 72-85: build record_data, take a fresh document id, send set()
PrepareCreate(p, a) ==
    /\ \E t1 \in Times(now) : \E t2 \in Times(t1) :
          /\ now' = t2
          /\ local' = [local EXCEPT ![p] =
                         [kind |-> "create", id |-> nextId,
                          record_data |-> RecordData(a, t1, t2)]]
    /\ nextId' = nextId + 1
    /\ pc' = [pc EXCEPT ![p] = "create_set"]

\* creates that have not taken their document id yet
PendingCreates == Cardinality({q \in Procs : pc[q] = "create_query"})

StartCreate(p) ==
    \E a \in CreateInputs :
        /\ nextId + PendingCreates <= MaxRecords
        /\ args' = [args EXCEPT ![p] = a]
        /\ result' = [result EXCEPT ![p] = NoResult]
        /\ IF NeedsShadowCheck(a.cv)
             THEN /\ pc' = [pc EXCEPT ![p] = "create_query"]
                  /\ UNCHANGED <<local, nextId, now>>
             ELSE PrepareCreate(p, a)
        /\ UNCHANGED <<records, audit>>

\* lines 59-69: the latest-version query returns
CreateQuery(p) ==
    /\ pc[p] = "create_query"
    /\ IF ShadowConflict(records, args[p])
         THEN /\ Return(p, CreateConflictResult(records, args[p]))
              /\ UNCHANGED <<nextId, now>>
         ELSE /\ PrepareCreate(p, args[p])
              /\ result' = result
    /\ UNCHANGED <<records, audit, calls, args, consultations>>

\* line 85 commits; lines 88-93 build the audit entry
CreateSet(p) ==
    /\ pc[p] = "create_set"
    /\ records' = (local[p].id :> local[p].record_data) @@ records
    /\ \E t \in Times(now) :
          /\ now' = t
          /\ Goto(p, "create_audit",
                  [local[p] EXCEPT !.kind = "create_audit"] @@
                  [audit_data |-> AuditData(local[p].id, "create", args[p].user,
                                            local[p].record_data, t)])
    /\ UNCHANGED <<audit, nextId, calls, args, consultations>>

\* line 378 commits; lines 95-98
CreateAudit(p) ==
    /\ pc[p] = "create_audit"
    /\ audit' = Append(audit, local[p].audit_data)
    /\ Return(p, [kind |-> "created", id |-> local[p].id,
                  record |-> [id |-> local[p].id, doc |-> local[p].record_data]])
    /\ UNCHANGED <<records, nextId, now, calls, args, consultations>>

(***************************************************************************)
(* get_record                                                              *)
(***************************************************************************)
StartGet(p) ==
    \E a \in GetInputs :
        /\ args' = [args EXCEPT ![p] = a]
        /\ pc' = [pc EXCEPT ![p] = "get"]
        /\ result' = [result EXCEPT ![p] = NoResult]
        /\ UNCHANGED <<records, audit, nextId, now, local>>

\* lines 111-124
GetStep(p) ==
    /\ pc[p] = "get"
    /\ Return(p, GetRecord(records, args[p].rid, args[p].user))
    /\ UNCHANGED <<records, audit, nextId, now, calls, args, consultations>>

(***************************************************************************)
(* update_record                                                           *)
(***************************************************************************)
\* line 212
UpdateConflictMut(cv, sv) == cv < sv
UpdateConflict(cv, sv) == cv <= sv

\* lines 213-219
UpdateConflictResultMut(rec, cv) ==
    [kind |-> "conflict", id |-> rec.id, server_version |-> cv,
     client_version |-> cv, server_data |-> rec]
UpdateConflictResult(rec, cv) ==
    [kind |-> "conflict", id |-> rec.id, server_version |-> rec.doc.version,
     client_version |-> cv, server_data |-> rec]

\* lines 222-227
UpdateFieldsMut(rec, patch, cv, t) ==
    [data |-> patch, version |-> cv, updated_at |-> t, sync_status |-> "synced"]
UpdateFields(rec, patch, cv, t) ==
    [data |-> Merge(rec.doc.data, patch), version |-> cv, updated_at |-> t,
     sync_status |-> "synced"]

\* DocumentReference.update(): sets the given fields, keeps the others
ApplyUpdateMut(doc, f) ==
    [doc EXCEPT !.data = f.data, !.version = f.version,
                !.updated_at = f.updated_at, !.sync_status = f.sync_status,
                !.created_at = f.updated_at]
ApplyUpdate(doc, f) ==
    [doc EXCEPT !.data = f.data, !.version = f.version,
                !.updated_at = f.updated_at, !.sync_status = f.sync_status]

StartUpdate(p) ==
    \E a \in UpdateInputs :
        /\ args' = [args EXCEPT ![p] = a]
        /\ pc' = [pc EXCEPT ![p] = "update_get"]
        /\ result' = [result EXCEPT ![p] = NoResult]
        /\ UNCHANGED <<records, audit, nextId, now, local>>

\* lines 205-227: the read returns, the handler decides and builds update_fields
UpdateGet(p) ==
    LET a == args[p]
        got == GetRecord(records, a.rid, a.user)
    IN /\ pc[p] = "update_get"
       /\ IF got.kind = "notfound"
            THEN Return(p, NotFound) /\ now' = now
            ELSE IF UpdateConflict(a.cv, got.record.doc.version)
            THEN Return(p, UpdateConflictResult(got.record, a.cv)) /\ now' = now
            ELSE \E t \in Times(now) :
                   /\ now' = t
                   /\ Goto(p, "update_write",
                           [kind |-> "update", record |-> got.record,
                            update_fields |-> UpdateFields(got.record, a.data, a.cv, t)])
       /\ UNCHANGED <<records, audit, nextId, calls, args, consultations>>

\* line 229 commits (update() of a missing document raises); lines 232-237
UpdateWrite(p) ==
    LET a == args[p] IN
    /\ pc[p] = "update_write"
    /\ IF a.rid \notin DOMAIN records
         THEN /\ Return(p, StoreError)
              /\ UNCHANGED <<records, now>>
         ELSE /\ records' = [records EXCEPT ![a.rid] = ApplyUpdate(@, local[p].update_fields)]
              /\ \E t \in Times(now) :
                    /\ now' = t
                    /\ Goto(p, "update_audit",
                            [kind |-> "audit",
                             audit_data |-> AuditData(a.rid, "update", a.user,
                                                      local[p].update_fields, t)])
    /\ UNCHANGED <<audit, nextId, calls, args, consultations>>

\* line 378 commits; line 240 sends the read
UpdateAuditTwiceMut(p) ==
    /\ pc[p] = "update_audit"
    /\ audit' = Append(Append(audit, local[p].audit_data), local[p].audit_data)
    /\ Goto(p, "update_reread", NoLocal)
    /\ UNCHANGED <<records, nextId, now, calls, args, consultations>>
UpdateAudit(p) ==
    /\ pc[p] = "update_audit"
    /\ audit' = Append(audit, local[p].audit_data)
    /\ Goto(p, "update_reread", NoLocal)
    /\ UNCHANGED <<records, nextId, now, calls, args, consultations>>

\* lines 240-243
UpdateReread(p) ==
    /\ pc[p] = "update_reread"
    /\ Return(p, GetRecord(records, args[p].rid, args[p].user))
    /\ UNCHANGED <<records, audit, nextId, now, calls, args, consultations>>

(***************************************************************************)
(* delete_record                                                           *)
(***************************************************************************)
StartDelete(p) ==
    \E a \in DeleteInputs :
        /\ args' = [args EXCEPT ![p] = a]
        /\ pc' = [pc EXCEPT ![p] = "delete_get"]
        /\ result' = [result EXCEPT ![p] = NoResult]
        /\ UNCHANGED <<records, audit, nextId, now, local>>

\* lines 262-272 / 280-282
DeleteGet(p) ==
    LET a == args[p]
        got == GetRecord(records, a.rid, a.user)
    IN /\ pc[p] = "delete_get"
       /\ IF got.kind = "notfound"
            THEN Return(p, NotFound) /\ now' = now
            ELSE IF a.soft
            THEN \E t1 \in Times(now) : \E t2 \in Times(t1) :
                   /\ now' = t2
                   /\ Goto(p, "delete_soft",
                           [kind |-> "delete", deleted_at |-> t1, updated_at |-> t2])
            ELSE Goto(p, "delete_hard", NoLocal) /\ now' = now
       /\ UNCHANGED <<records, audit, nextId, calls, args, consultations>>

\* line 268 commits; lines 274-279
DeleteSoft(p) ==
    LET a == args[p] IN
    /\ pc[p] = "delete_soft"
    /\ IF a.rid \notin DOMAIN records
         THEN /\ Return(p, StoreError)
              /\ UNCHANGED <<records, now>>
         ELSE /\ records' = [records EXCEPT ![a.rid] =
                                [@ EXCEPT !.is_deleted = TRUE,
                                          !.deleted_at = local[p].deleted_at,
                                          !.updated_at = local[p].updated_at]]
              /\ \E t \in Times(now) :
                    /\ now' = t
                    /\ Goto(p, "delete_audit",
                            [kind |-> "audit",
                             audit_data |-> AuditData(a.rid, "delete", a.user,
                                                      [soft_delete |-> TRUE], t)])
    /\ UNCHANGED <<audit, nextId, calls, args, consultations>>

\* line 282 commits (delete() of a missing document is a no-op); lines 284-289
DeleteHardPurgeMut(p) ==
    LET a == args[p]
        Kept(e) == e.record_id # a.rid
    IN /\ pc[p] = "delete_hard"
       /\ records' = [r \in (DOMAIN records) \ {a.rid} |-> records[r]]
       /\ audit' = SelectSeq(audit, Kept)
       /\ \E t \in Times(now) :
             /\ now' = t
             /\ Goto(p, "delete_audit",
                     [kind |-> "audit",
                      audit_data |-> AuditData(a.rid, "hard_delete", a.user, <<>>, t)])
       /\ UNCHANGED <<nextId, calls, args, consultations>>
DeleteHardKeepMut(p) ==
    LET a == args[p] IN
    /\ pc[p] = "delete_hard"
    /\ records' = records
    /\ \E t \in Times(now) :
          /\ now' = t
          /\ Goto(p, "delete_audit",
                  [kind |-> "audit",
                   audit_data |-> AuditData(a.rid, "hard_delete", a.user, <<>>, t)])
    /\ UNCHANGED <<audit, nextId, calls, args, consultations>>
DeleteHard(p) ==
    LET a == args[p] IN
    /\ pc[p] = "delete_hard"
    /\ records' = [r \in (DOMAIN records) \ {a.rid} |-> records[r]]
    /\ \E t \in Times(now) :
          /\ now' = t
          /\ Goto(p, "delete_audit",
                  [kind |-> "audit",
                   audit_data |-> AuditData(a.rid, "hard_delete", a.user, <<>>, t)])
    /\ UNCHANGED <<audit, nextId, calls, args, consultations>>

\* line 378 commits; lines 291-292
DeleteAudit(p) ==
    /\ pc[p] = "delete_audit"
    /\ audit' = Append(audit, local[p].audit_data)
    /\ Return(p, [kind |-> "deleted"])
    /\ UNCHANGED <<records, nextId, now, calls, args, consultations>>

(***************************************************************************)
(* resolve_conflict                                                        *)
(***************************************************************************)
\* lines 314-320
ResolvedDataChosen(rec, a, t1, t2) ==
    [data |-> a.data, version |-> a.chosen, updated_at |-> t1,
     sync_status |-> "synced", conflict_resolved_at |-> t2]
ResolvedDataMerged(rec, a, t1, t2) ==
    [data |-> Merge(rec.doc.data, a.data), version |-> rec.doc.version + 1,
     updated_at |-> t1, sync_status |-> "synced", conflict_resolved_at |-> t2]
ResolvedData(rec, a, t1, t2) ==
    [data |-> a.data, version |-> rec.doc.version + 1, updated_at |-> t1,
     sync_status |-> "synced", conflict_resolved_at |-> t2]

ApplyResolve(doc, f) ==
    [doc EXCEPT !.data = f.data, !.version = f.version,
                !.updated_at = f.updated_at, !.sync_status = f.sync_status,
                !.conflict_resolved_at = f.conflict_resolved_at]

StartResolve(p) ==
    \E a \in ResolveInputs :
        /\ args' = [args EXCEPT ![p] = a]
        /\ pc' = [pc EXCEPT ![p] = "resolve_get"]
        /\ result' = [result EXCEPT ![p] = NoResult]
        /\ UNCHANGED <<records, audit, nextId, now, local>>

\* lines 309-320
ResolveGet(p) ==
    LET a == args[p]
        got == GetRecord(records, a.rid, a.user)
    IN /\ pc[p] = "resolve_get"
       /\ IF got.kind = "notfound"
            THEN Return(p, NotFound) /\ now' = now
            ELSE \E t1 \in Times(now) : \E t2 \in Times(t1) :
                   /\ now' = t2
                   /\ Goto(p, "resolve_write",
                           [kind |-> "resolve",
                            resolved_data |-> ResolvedData(got.record, a, t1, t2)])
       /\ UNCHANGED <<records, audit, nextId, calls, args, consultations>>

\* line 322 commits (update() of a missing document raises); lines 324-332
ResolveWrite(p) ==
    LET a == args[p] IN
    /\ pc[p] = "resolve_write"
    /\ IF a.rid \notin DOMAIN records
         THEN /\ Return(p, StoreError)
              /\ UNCHANGED <<records, now>>
         ELSE /\ records' = [records EXCEPT ![a.rid] = ApplyResolve(@, local[p].resolved_data)]
              /\ \E t \in Times(now) :
                    /\ now' = t
                    /\ Goto(p, "resolve_audit",
                            [kind |-> "audit",
                             audit_data |-> AuditData(a.rid, "resolve_conflict", a.user,
                                              [chosen_version |-> a.chosen,
                                               resolved_data |-> a.data], t)])
    /\ UNCHANGED <<audit, nextId, calls, args, consultations>>

\* line 378 commits; line 336 sends the read
ResolveAudit(p) ==
    /\ pc[p] = "resolve_audit"
    /\ audit' = Append(audit, local[p].audit_data)
    /\ Goto(p, "resolve_reread", NoLocal)
    /\ UNCHANGED <<records, nextId, now, calls, args, consultations>>

\* line 336
ResolveReread(p) ==
    /\ pc[p] = "resolve_reread"
    /\ Return(p, GetRecord(records, args[p].rid, args[p].user))
    /\ UNCHANGED <<records, audit, nextId, now, calls, args, consultations>>

(***************************************************************************)
(* list_records, get_pending_sync_records                                  *)
(***************************************************************************)
\* lines 147-153 (and 169-173): the filters of the query
ListMatchAllMut(store, a) ==
    {r \in DOMAIN store :
        /\ store[r].user_id = a.user
        /\ a.rtype # "none" => store[r].record_type = a.rtype}
ListMatchMut(store, a) ==
    {r \in DOMAIN store :
        /\ a.rtype # "none" => store[r].record_type = a.rtype
        /\ ~a.include_deleted => store[r].is_deleted = FALSE}
ListMatch(store, a) ==
    {r \in DOMAIN store :
        /\ store[r].user_id = a.user
        /\ a.rtype # "none" => store[r].record_type = a.rtype
        /\ ~a.include_deleted => store[r].is_deleted = FALSE}

\* line 156: updated_at descending; equal keys come in document-id order,
\* in the direction of the last order_by
ListFirst(store, S) ==
    CHOOSE r \in S : \A q \in S :
        \/ store[r].updated_at > store[q].updated_at
        \/ store[r].updated_at = store[q].updated_at /\ r >= q

RECURSIVE ListOrder(_, _)
ListOrder(store, S) ==
    IF S = {} THEN <<>>
    ELSE LET f == ListFirst(store, S)
         IN <<View(store, f)>> \o ListOrder(store, S \ {f})

\* lines 159-166: limit(page_size).offset((page - 1) * page_size)
ListPageMut(store, a) ==
    LET all == ListOrder(store, ListMatch(store, a))
        offset == a.page * a.page_size
        last == IF offset + a.page_size < Len(all) THEN offset + a.page_size ELSE Len(all)
    IN SubSeq(all, offset + 1, last)
ListPage(store, a) ==
    LET all == ListOrder(store, ListMatch(store, a))
        offset == (a.page - 1) * a.page_size
        last == IF offset + a.page_size < Len(all) THEN offset + a.page_size ELSE Len(all)
    IN SubSeq(all, offset + 1, last)

StartList(p) ==
    \E a \in ListInputs :
        /\ args' = [args EXCEPT ![p] = a]
        /\ pc' = [pc EXCEPT ![p] = "list_page"]
        /\ result' = [result EXCEPT ![p] = NoResult]
        /\ UNCHANGED <<records, audit, nextId, now, local>>

\* lines 162-166: the page query streams its documents
ListPageStep(p) ==
    /\ pc[p] = "list_page"
    /\ Goto(p, "list_count", [kind |-> "list", records |-> ListPage(records, args[p])])
    /\ UNCHANGED <<records, audit, nextId, now, calls, args, consultations>>

\* lines 175-183: the count query streams its documents
ListCountStep(p) ==
    LET total == Cardinality(ListMatch(records, args[p])) IN
    /\ pc[p] = "list_count"
    /\ Return(p, [kind |-> "list", records |-> local[p].records, total |-> total,
                  page |-> args[p].page, page_size |-> args[p].page_size,
                  has_more |-> (args[p].page * args[p].page_size < total)])
    /\ UNCHANGED <<records, audit, nextId, now, calls, args, consultations>>

\* lines 348-352
PendingMatchMut(store, user) ==
    {r \in DOMAIN store : store[r].user_id = user}
PendingMatch(store, user) ==
    {r \in DOMAIN store : store[r].user_id = user /\ store[r].sync_status = "pending"}

StartPending(p) ==
    \E a \in PendingInputs :
        /\ args' = [args EXCEPT ![p] = a]
        /\ pc' = [pc EXCEPT ![p] = "pending_query"]
        /\ result' = [result EXCEPT ![p] = NoResult]
        /\ UNCHANGED <<records, audit, nextId, now, local>>

\* lines 354-360
PendingStep(p) ==
    /\ pc[p] = "pending_query"
    /\ Return(p, [kind |-> "pending",
                  records |-> {View(records, r) : r \in PendingMatch(records, args[p].user)}])
    /\ UNCHANGED <<records, audit, nextId, now, calls, args, consultations>>

(***************************************************************************)
(* Request handlers                                                        *)
(***************************************************************************)
StartWrite(p) ==
    \/ StartCreate(p)
    \/ StartUpdate(p)
    \/ StartDelete(p)
    \/ StartResolve(p)

StartRead(p) ==
    \/ StartGet(p)
    \/ StartList(p)
    \/ StartPending(p)

\* a request arrives at an idle handler; `budget` bounds the number of requests
Arrive(p, budget) ==
    /\ pc[p] = "idle"
    /\ calls < budget
    /\ calls' = calls + 1
    /\ UNCHANGED consultations

WriteStep(p) ==
    \/ CreateQuery(p) \/ CreateSet(p) \/ CreateAudit(p)
    \/ UpdateGet(p) \/ UpdateWrite(p) \/ UpdateAudit(p) \/ UpdateReread(p)
    \/ DeleteGet(p) \/ DeleteSoft(p) \/ DeleteHard(p) \/ DeleteAudit(p)
    \/ ResolveGet(p) \/ ResolveWrite(p) \/ ResolveAudit(p) \/ ResolveReread(p)

ReadStep(p) ==
    \/ GetStep(p)
    \/ ListPageStep(p) \/ ListCountStep(p)
    \/ PendingStep(p)

\* one request at a time: every handler runs from its first to its last
\* await with no other handler in between
Next ==
    \/ Arrive("h1", MaxCalls) /\ (StartWrite("h1") \/ StartRead("h1"))
    \/ WriteStep("h1")
    \/ ReadStep("h1")

Spec == Init /\ [][Next]_vars

\* concurrent handlers of the mutating endpoints: a request arrives while
\* another handler is between two awaits
NextConcurrent ==
    \E p \in Procs : (Arrive(p, MaxConcurrentCalls) /\ StartWrite(p)) \/ WriteStep(p)

SpecConcurrent == Init /\ [][NextConcurrent]_vars

\* the awaits of _create_audit_entry (line 378)
AuditLabels == {"create_audit", "update_audit", "delete_audit", "resolve_audit"}

\* line 378 raises (the ledger collection is unreachable): nothing is added,
\* the exception leaves the service method, which has no handler for it, and
\* the route's `except Exception` answers 500
AuditFails(p) ==
    /\ pc[p] \in AuditLabels
    /\ Return(p, StoreError)
    /\ UNCHANGED <<records, audit, nextId, now, calls, args, consultations>>

\* one request at a time, with a ledger whose add() may fail
NextFaulty ==
    \/ Next
    \/ AuditFails("h1")

SpecFaulty == Init /\ [][NextFaulty]_vars

\* the requests of one patient about the records of one type
LifeRequest(a) ==
    /\ a.user = "u1"
    /\ a.rtype \in {"none", "medical_history"}
    /\ a.op = "update" => (a.cv = MaxVersion /\ a.data = PC)
    /\ a.op = "resolve" => a.chosen = 1
    /\ a.op = "list" => (a.page = 1 /\ a.page_size = 2)

\* one request at a time, from creation to deletion and the calls after it
NextLifecycle ==
    \/ /\ Arrive("h1", MaxLifeCalls)
       /\ \/ StartCreate("h1") \/ StartUpdate("h1") \/ StartDelete("h1")
          \/ StartResolve("h1") \/ StartGet("h1") \/ StartList("h1")
       /\ LifeRequest(args'["h1"])
    \/ WriteStep("h1")
    \/ GetStep("h1")
    \/ ListPageStep("h1")
    \/ ListCountStep("h1")

SpecLifecycle == Init /\ [][NextLifecycle]_vars

(***************************************************************************)
(* list_records over a filled collection.  Every record was created at     *)
(* time 1 with client_version = 1; afterwards some were soft-deleted and   *)
(* some updated with client_version = 2 and patch PC, which set their      *)
(* updated_at.                                                             *)
(***************************************************************************)
\* lines 72-82, then lines 222-227 or 268-272
ListedDoc(u, ty, del, t) ==
    LET created == RecordData(CreateArgs(u, ty, 1), 1, 1)
    IN IF del
         THEN [created EXCEPT !.is_deleted = TRUE, !.deleted_at = t, !.updated_at = t]
       ELSE IF t > 1
         THEN ApplyUpdate(created, UpdateFields([id |-> NoId, doc |-> created], PC, 2, t))
       ELSE created

\* the record with id r: the first may belong to the second account, the
\* second may be of the other type
ListedDocs(r) ==
    {ListedDoc(u, ty, del, t) :
        u \in (IF r = 1 THEN Users ELSE {"u1"}),
        ty \in (IF r = 2 THEN RecordTypes ELSE {"medical_history"}),
        del \in BOOLEAN, t \in 1..MaxClock}

\* the collections of n documents with the ids 1..n
RECURSIVE ListedStoresOf(_)
ListedStoresOf(n) ==
    IF n = 0 THEN {<<>>}
    ELSE {Append(st, d) : st \in ListedStoresOf(n - 1), d \in ListedDocs(n)}

ListedStores == UNION {ListedStoresOf(n) : n \in 0..MaxListed}

\* the records that were updated or deleted after their creation
Touched(store) == {r \in DOMAIN store : store[r].is_deleted \/ store[r].version = 2}

\* lines 232-237, 274-279: their audit entries, in the order of the writes
RECURSIVE TouchedAudit(_, _)
TouchedAudit(store, S) ==
    IF S = {} THEN <<>>
    ELSE LET f == CHOOSE r \in S : \A q \in S :
                     \/ store[r].updated_at < store[q].updated_at
                     \/ store[r].updated_at = store[q].updated_at /\ r <= q
             d == store[f]
             e == IF d.is_deleted
                    THEN AuditData(f, "delete", d.user_id, [soft_delete |-> TRUE], d.updated_at)
                    ELSE AuditData(f, "update", d.user_id,
                                   [data |-> d.data, version |-> d.version,
                                    updated_at |-> d.updated_at, sync_status |-> "synced"],
                                   d.updated_at)
         IN <<e>> \o TouchedAudit(store, S \ {f})

\* lines 88-93: the audit entries of the creations, then those of the writes
ListedAudit(store) ==
    [r \in DOMAIN store |->
        AuditData(r, "create", store[r].user_id,
                  RecordData(CreateArgs(store[r].user_id, store[r].record_type, 1), 1, 1), 1)]
        \o TouchedAudit(store, Touched(store))

InitList ==
    /\ records \in ListedStores
    /\ audit = ListedAudit(records)
    /\ nextId = Len(records) + 1
    /\ now = Max({1} \cup {records[r].updated_at : r \in DOMAIN records})
    /\ calls = 0
    /\ pc = [p \in Procs |-> "idle"]
    /\ args = [p \in Procs |-> NoArgs]
    /\ local = [p \in Procs |-> NoLocal]
    /\ result = [p \in Procs |-> NoResult]
    /\ consultations = <<>>

NextList ==
    \/ Arrive("h1", MaxCalls) /\ StartList("h1")
    \/ ListPageStep("h1")
    \/ ListCountStep("h1")

SpecList == InitList /\ [][NextList]_vars

(***************************************************************************)
(* The health_records collection as the queries on sync_status may find    *)
(* it (schemas.py line 75: synced, pending, conflict), and the storage     *)
(* clearing of the settings service (settings/service.py), which works on  *)
(* the same collection.                                                    *)
(***************************************************************************)
SyncStates == {"synced", "pending", "conflict"}

\* lines 72-82, with the sync_status the document carries
SyncDocs ==
    {[RecordData(CreateArgs(u, "medical_history", 1), 1, 1) EXCEPT !.sync_status = st] :
        u \in Users, st \in SyncStates}

\* the collections of n documents
SyncStores(n) == [1..n -> SyncDocs]

InitPending ==
    /\ \E n \in 0..MaxListed : records \in SyncStores(n)
    /\ audit = ListedAudit(records)
    /\ nextId = Len(records) + 1
    /\ now = 1
    /\ calls = 0
    /\ pc = [p \in Procs |-> "idle"]
    /\ args = [p \in Procs |-> NoArgs]
    /\ local = [p \in Procs |-> NoLocal]
    /\ result = [p \in Procs |-> NoResult]
    /\ consultations = <<>>

\* settings/routes.py lines 118-129: clear_all or clear_offline_records
ClearInputs == {[NoArgs EXCEPT !.op = "clear", !.user = u] : u \in Users}

StartClear(p) ==
    \E a \in ClearInputs :
        /\ args' = [args EXCEPT ![p] = a]
        /\ pc' = [pc EXCEPT ![p] = "clear_query"]
        /\ result' = [result EXCEPT ![p] = NoResult]
        /\ UNCHANGED <<records, audit, nextId, now, local>>

\* settings/service.py lines 329-331 (345-347): the query streams its documents
ClearQuery(p) ==
    LET todo == PendingMatch(records, args[p].user) IN
    /\ pc[p] = "clear_query"
    /\ IF todo = {}
         THEN Return(p, [kind |-> "cleared", count |-> 0])
         ELSE Goto(p, "clear_update", [kind |-> "clear", todo |-> todo, count |-> 0])
    /\ UNCHANGED <<records, audit, nextId, now, calls, args, consultations>>

\* settings/service.py lines 332-333 (348-349): doc.reference.update() of the
\* next document of the stream
ClearUpdate(p) ==
    LET r == CHOOSE x \in local[p].todo : \A y \in local[p].todo : x <= y
        rest == local[p].todo \ {r}
    IN /\ pc[p] = "clear_update"
       /\ IF r \notin DOMAIN records
            THEN /\ Return(p, StoreError)
                 /\ records' = records
            ELSE /\ records' = [records EXCEPT ![r].sync_status = "synced"]
                 /\ IF rest = {}
                      THEN Return(p, [kind |-> "cleared", count |-> local[p].count + 1])
                      ELSE Goto(p, "clear_update",
                                [local[p] EXCEPT !.todo = rest, !.count = @ + 1])
       /\ UNCHANGED <<audit, nextId, now, calls, args, consultations>>

NextPending ==
    \/ Arrive("h1", MaxCalls) /\ (StartPending("h1") \/ StartClear("h1"))
    \/ PendingStep("h1")
    \/ ClearQuery("h1")
    \/ ClearUpdate("h1")

SpecPending == InitPending /\ [][NextPending]_vars

(***************************************************************************)
(* Consultation sessions (backend/app/consultation/service.py,             *)
(* ConsultationService): create, join and end, two handlers interleaved    *)
(* at their awaits.  The caller is the patient of the consultation it      *)
(* creates (routes.py line 36, patient_id omitted).                        *)
(***************************************************************************)
ConsultationStatus == {"scheduled", "active", "completed", "cancelled", "missed"}
ConsultationIds == 1..MaxConsultations

ConsultArgs(op, u, cid, dr, sched) ==
    [op |-> op, user |-> u, consultation_id |-> cid, doctor_id |-> dr,
     scheduled_time |-> sched]
CreateConsultationInputs ==
    {ConsultArgs("create_consultation", "u1", NoId, dr, sched) :
        dr \in Users, sched \in {NoTime, MaxClock}}
        \cup {ConsultArgs("create_consultation", "u2", NoId, "u2", MaxClock)}
JoinInputs ==
    {ConsultArgs("join", u, c, NoUser, NoTime) : u \in Users, c \in ConsultationIds}
EndInputs ==
    {ConsultArgs("end", u, c, NoUser, NoTime) : u \in Users, c \in ConsultationIds}

\* lines 53-66
ConsultationData(a, t1, t2, t3) ==
    [doctor_id |-> a.doctor_id, patient_id |-> a.user,
     status |-> IF a.scheduled_time # NoTime THEN "scheduled" ELSE "active",
     scheduled_time |-> a.scheduled_time,
     started_at |-> IF a.scheduled_time # NoTime THEN NoTime ELSE t1,
     ended_at |-> NoTime, created_at |-> t2, updated_at |-> t3]

\* get_consultation: the document, or None when it is absent or the user is
\* neither its doctor nor its patient
GetConsultation(store, cid, user) ==
    IF cid \notin DOMAIN store THEN NotFound
    ELSE IF store[cid].doctor_id # user /\ store[cid].patient_id # user THEN NotFound
    ELSE [kind |-> "consultation", consultation |-> View(store, cid)]

\* create_consultations still waiting for their set
PendingConsultations == Cardinality({q \in Procs : pc[q] = "consultation_set"})

\* lines 53-68: consultation_data is built and the set is sent
StartCreateConsultation(p) ==
    \E a \in CreateConsultationInputs :
        /\ Len(consultations) + PendingConsultations < MaxConsultations
        /\ args' = [args EXCEPT ![p] = a]
        /\ result' = [result EXCEPT ![p] = NoResult]
        /\ \E t1 \in Times(now) : \E t2 \in Times(t1) : \E t3 \in Times(t2) :
              /\ now' = t3
              /\ pc' = [pc EXCEPT ![p] = "consultation_set"]
              /\ local' = [local EXCEPT ![p] =
                     [kind |-> "consultation", data |-> ConsultationData(a, t1, t2, t3)]]
        /\ UNCHANGED <<records, audit, nextId>>

\* line 68 commits; lines 70-73 return the document with its id
CreateConsultationSet(p) ==
    /\ pc[p] = "consultation_set"
    /\ consultations' = Append(consultations, local[p].data)
    /\ Return(p, [kind |-> "consultation", id |-> Len(consultations) + 1,
                  status |-> local[p].data.status])
    /\ UNCHANGED <<records, audit, nextId, now, calls, args>>

StartJoin(p) ==
    \E a \in JoinInputs :
        /\ args' = [args EXCEPT ![p] = a]
        /\ pc' = [pc EXCEPT ![p] = "join_get"]
        /\ result' = [result EXCEPT ![p] = NoResult]
        /\ UNCHANGED <<records, audit, nextId, now, local>>

\* the response of join_consultation, lines 149-155
Joined(c) == [kind |-> "joined", consultation_id |-> c.id, status |-> c.doc.status]

\* lines 121-141: the read returns; ValueError (route: 400) when the
\* consultation is not visible or not scheduled/active; a scheduled one is
\* sent the update that activates it
JoinGet(p) ==
    /\ pc[p] = "join_get"
    /\ LET a == args[p]
           got == GetConsultation(consultations, a.consultation_id, a.user)
       IN IF got.kind = "notfound"
          THEN /\ Return(p, [kind |-> "bad_request",
                             detail |-> "Consultation not found or access denied"])
               /\ now' = now
          ELSE IF got.consultation.doc.status \notin {"scheduled", "active"}
          THEN /\ Return(p, [kind |-> "bad_request", detail |-> "Consultation is not active"])
               /\ now' = now
          ELSE IF got.consultation.doc.status = "scheduled"
          THEN \E t1 \in Times(now) : \E t2 \in Times(t1) :
                  /\ now' = t2
                  /\ Goto(p, "join_update",
                          [kind |-> "join", consultation |-> got.consultation,
                           fields |-> [status |-> "active", started_at |-> t1,
                                       updated_at |-> t2]])
          ELSE /\ Return(p, Joined(got.consultation))
               /\ now' = now
    /\ UNCHANGED <<records, audit, nextId, calls, args, consultations>>

\* line 137 commits; lines 149-155 answer with the status that was read
JoinUpdate(p) ==
    /\ pc[p] = "join_update"
    /\ consultations' =
          [consultations EXCEPT ![args[p].consultation_id] = Merge(@, local[p].fields)]
    /\ Return(p, Joined(local[p].consultation))
    /\ UNCHANGED <<records, audit, nextId, now, calls, args>>

StartEnd(p) ==
    \E a \in EndInputs :
        /\ args' = [args EXCEPT ![p] = a]
        /\ pc' = [pc EXCEPT ![p] = "end_get"]
        /\ result' = [result EXCEPT ![p] = NoResult]
        /\ UNCHANGED <<records, audit, nextId, now, local>>

\* lines 172-181: the read returns; False (route: 404) when the consultation
\* is not visible; otherwise the update that completes it is sent, whatever
\* its status
EndGet(p) ==
    /\ pc[p] = "end_get"
    /\ LET a == args[p]
           got == GetConsultation(consultations, a.consultation_id, a.user)
       IN IF got.kind = "notfound"
          THEN /\ Return(p, NotFound)
               /\ now' = now
          ELSE \E t1 \in Times(now) : \E t2 \in Times(t1) :
                  /\ now' = t2
                  /\ Goto(p, "end_update",
                          [kind |-> "end",
                           fields |-> [status |-> "completed", ended_at |-> t1,
                                       updated_at |-> t2]])
    /\ UNCHANGED <<records, audit, nextId, calls, args, consultations>>

\* line 177 commits; line 184 returns True
EndUpdate(p) ==
    /\ pc[p] = "end_update"
    /\ consultations' =
          [consultations EXCEPT ![args[p].consultation_id] = Merge(@, local[p].fields)]
    /\ Return(p, [kind |-> "ended"])
    /\ UNCHANGED <<records, audit, nextId, now, calls, args>>

NextConsultation ==
    \/ \E p \in Procs :
          Arrive(p, MaxConsultCalls)
              /\ (StartCreateConsultation(p) \/ StartJoin(p) \/ StartEnd(p))
    \/ \E p \in Procs : CreateConsultationSet(p)
    \/ \E p \in Procs : JoinGet(p)
    \/ \E p \in Procs : JoinUpdate(p)
    \/ \E p \in Procs : EndGet(p)
    \/ \E p \in Procs : EndUpdate(p)

SpecConsultation == Init /\ [][NextConsultation]_vars

TypeOK ==
    /\ calls \in 0..(MaxCalls + MaxConcurrentCalls + MaxLifeCalls)
    /\ now \in 1..MaxClock
    /\ nextId \in 1..(MaxRecords + MaxListed + 1)
    /\ DOMAIN records \subseteq 1..(nextId - 1)

(***************************************************************************)
(* Properties                                                              *)
(***************************************************************************)
\* handler p has returned from a call of `op`
Done(p, op) == pc[p] = "idle" /\ args[p].op = op /\ result[p].kind # "none"

\* handler p takes the step it is waiting for at `label`
Takes(p, label) == pc[p] = label /\ pc'[p] # label

\* the record exists and `u` owns it
Owns(store, rid, u) == rid \in DOMAIN store /\ store[rid].user_id = u

\* C1: two update calls on the same record with the same client_version, both
\* of which found the record: when one of them succeeds the other one does not,
\* it receives a Conflict whose server_version is the version the winner wrote.
C1_ExactlyOneUpdateWins ==
    \A p \in Procs : \A q \in Procs \ {p} :
        ( /\ Done(p, "update") /\ Done(q, "update")
          /\ args[p].rid = args[q].rid
          /\ args[p].user = args[q].user
          /\ args[p].cv = args[q].cv
          /\ result[p].kind = "record"
          /\ result[q].kind \in {"record", "conflict"} )
        => /\ result[q].kind = "conflict"
           /\ result[q].server_version = args[p].cv

\* C2: the stored version of a record never decreases, and every committed
\* write of update_record or resolve_conflict leaves it strictly greater than
\* it was immediately before that write.
C2_VersionStep ==
    \A r \in (DOMAIN records) \cap (DOMAIN records') :
        /\ records'[r].version >= records[r].version
        /\ (\E p \in Procs :
                /\ args[p].rid = r
                /\ \/ pc[p] = "update_write" /\ pc'[p] = "update_audit"
                   \/ pc[p] = "resolve_write" /\ pc'[p] = "resolve_audit")
            => records'[r].version > records[r].version
C2_VersionMonotonic == [][C2_VersionStep]_vars

\* C3: an update_record on a record of the caller with client_version <= the
\* stored version returns a Conflict, leaves the store and the audit ledger as
\* they were, and is still stale afterwards, so repeating it conflicts again.
C3_StaleStep ==
    \A p \in Procs :
        LET a == args[p] IN
        ( /\ Takes(p, "update_get")
          /\ Owns(records, a.rid, a.user)
          /\ a.cv <= records[a.rid].version )
        => /\ result'[p].kind = "conflict"
           /\ pc'[p] = "idle"
           /\ records' = records
           /\ audit' = audit
           /\ Owns(records', a.rid, a.user)
           /\ a.cv <= records'[a.rid].version
C3_StaleUpdateRejected == [][C3_StaleStep]_vars

C3_Witness ==
    \E p \in Procs :
        /\ Done(p, "update")
        /\ result[p].kind = "conflict"
        /\ args[p].cv = records[args[p].rid].version

\* C4: the Conflict of update_record carries the stored version of the record
\* as server_version, the caller's client_version, and the whole stored record
\* as server_data.
C4_ConflictCarriesServerState ==
    \A p \in Procs :
        (Done(p, "update") /\ result[p].kind = "conflict")
        => /\ args[p].rid \in DOMAIN records
           /\ result[p].server_version = records[args[p].rid].version
           /\ result[p].client_version = args[p].cv
           /\ result[p].server_data = [id |-> args[p].rid, doc |-> records[args[p].rid]]

C4_Witness ==
    \E p \in Procs :
        /\ Done(p, "update")
        /\ result[p].kind = "conflict"
        /\ result[p].server_version > args[p].cv
        /\ result[p].server_data.doc.user_id = args[p].user

\* the non-deleted records of the owner and type of request `a`
Siblings(store, a) ==
    {r \in DOMAIN store :
        /\ store[r].user_id = a.user
        /\ store[r].record_type = a.rtype
        /\ ~store[r].is_deleted}

\* C5: a create_record with client_version > 1 returns a Conflict (carrying
\* the highest version and the client_version, storing nothing, appending no
\* audit entry) exactly when a non-deleted record of the same owner and type
\* has a version >= client_version; every other create stores one new record
\* with version = client_version and is_deleted = false and appends one audit
\* entry with action=create.
C5_Step ==
    \A p \in Procs :
        LET a == args[p]
            sib == Siblings(records, a)
        IN /\ Takes(p, "create_query") =>
                IF \E r \in sib : a.cv <= records[r].version
                THEN /\ a.cv > 1
                     /\ result'[p].kind = "conflict"
                     /\ \A r \in sib : records[r].version <= result'[p].server_version
                     /\ \E r \in sib : records[r].version = result'[p].server_version
                     /\ result'[p].client_version = a.cv
                     /\ records' = records
                     /\ audit' = audit
                ELSE pc'[p] = "create_set" /\ records' = records /\ audit' = audit
           /\ (pc[p] = "idle" /\ pc'[p] # "idle" /\ args'[p].op = "create") =>
                IF args'[p].cv > 1 THEN pc'[p] = "create_query" ELSE pc'[p] = "create_set"
           /\ Takes(p, "create_set") =>
                /\ audit' = audit
                /\ pc'[p] = "create_audit"
                /\ \E id \in (DOMAIN records') \ (DOMAIN records) :
                      /\ DOMAIN records' = (DOMAIN records) \cup {id}
                      /\ \A r \in DOMAIN records : records'[r] = records[r]
                      /\ records'[id].version = a.cv
                      /\ records'[id].is_deleted = FALSE
                      /\ records'[id].user_id = a.user
                      /\ records'[id].record_type = a.rtype
           /\ Takes(p, "create_audit") =>
                /\ records' = records
                /\ result'[p].kind = "created"
                /\ Len(audit') = Len(audit) + 1
                /\ SubSeq(audit', 1, Len(audit)) = audit
                /\ audit'[Len(audit')].action = "create"
                /\ audit'[Len(audit')].record_id = result'[p].id
C5_Done ==
    \A p \in Procs :
        (Done(p, "create") /\ result[p].kind # "conflict") =>
            /\ result[p].kind = "created"
            /\ result[p].id \in DOMAIN records
            /\ records[result[p].id].version = args[p].cv
            /\ records[result[p].id].is_deleted = FALSE
            /\ Cardinality({i \in 1..Len(audit) :
                    audit[i].record_id = result[p].id /\ audit[i].action = "create"}) = 1
C5_CreateShadowCheck == [][C5_Step]_vars /\ []C5_Done

C5_Witness ==
    \E p \in Procs :
        /\ Done(p, "create")
        /\ result[p].kind = "conflict"
        /\ args[p].cv > 1
        /\ result[p].server_version = args[p].cv
        /\ Cardinality(DOMAIN records) = 1

C7_Step ==
    \A p \in Procs :
        LET a == args[p] IN
        /\ (Takes(p, "resolve_get") /\ Owns(records, a.rid, a.user)) =>
                pc'[p] = "resolve_write" /\ records' = records
        /\ Takes(p, "resolve_write") =>
                /\ a.rid \in DOMAIN records
                /\ a.rid \in DOMAIN records'
                /\ records'[a.rid].version = records[a.rid].version + 1
C7_ResolveBumpsVersion == [][C7_Step]_vars

C7_Witness ==
    \E p \in Procs :
        /\ Done(p, "resolve")
        /\ result[p].kind = "record"
        /\ args[p].chosen < result[p].record.doc.version - 1

\* C8: resolve_conflict returns the record or not-found, never a Conflict;
\* not-found exactly when the record is absent or owned by someone else;
\* otherwise the stored payload is resolved_data (nothing of the old payload
\* is kept), sync_status is synced, and one audit entry with
\* action=resolve_conflict holding chosen_version and the resolved payload
\* has been appended.
C8_Done ==
    \A p \in Procs :
        Done(p, "resolve") =>
            LET a == args[p] IN
            /\ result[p].kind \in {"record", "notfound"}
            /\ result[p].kind = "notfound" <=> ~Owns(records, a.rid, a.user)
            /\ result[p].kind = "record" =>
                  /\ records[a.rid].data = a.data
                  /\ records[a.rid].sync_status = "synced"
                  /\ result[p].record = [id |-> a.rid, doc |-> records[a.rid]]
                  /\ Len(audit) > 0
                  /\ audit[Len(audit)].record_id = a.rid
                  /\ audit[Len(audit)].action = "resolve_conflict"
                  /\ audit[Len(audit)].data =
                        [chosen_version |-> a.chosen, resolved_data |-> a.data]
C8_Step ==
    \A p \in Procs :
        /\ Takes(p, "resolve_audit") =>
                /\ Len(audit') = Len(audit) + 1
                /\ SubSeq(audit', 1, Len(audit)) = audit
        /\ (Takes(p, "resolve_get") \/ Takes(p, "resolve_write") \/ Takes(p, "resolve_reread"))
                => audit' = audit
C8_ResolveAlwaysSucceeds == []C8_Done /\ [][C8_Step]_vars

C8_Witness ==
    \E p \in Procs :
        /\ Done(p, "resolve")
        /\ result[p].kind = "record"
        /\ "a" \notin DOMAIN result[p].record.doc.data
        /\ args[p].chosen # result[p].record.doc.version

\* the store without the records `S`
Without(store, S) == [r \in (DOMAIN store) \ S |-> store[r]]

\* a document id that no create has taken
AbsentId == MaxRecords + 1

\* C9: get_record returns the record exactly when the caller owns it; for a
\* record of someone else the result is the result for an id that does not
\* exist, and removing or changing records of other owners does not change
\* any result the caller gets.
C9_GetRecordOwnerOnly ==
    /\ \A u \in Users : \A rid \in RecordIds \cup {AbsentId} :
          LET others == {r \in DOMAIN records : records[r].user_id # u} IN
          /\ GetRecord(records, rid, u).kind = "record" <=> Owns(records, rid, u)
          /\ GetRecord(records, rid, u).kind = "record" =>
                GetRecord(records, rid, u).record = [id |-> rid, doc |-> records[rid]]
          /\ ~Owns(records, rid, u) =>
                GetRecord(records, rid, u) = GetRecord(records, AbsentId, u)
          /\ \A S \in SUBSET others :
                GetRecord(Without(records, S), rid, u) = GetRecord(records, rid, u)
          /\ \A r \in others :
                GetRecord([records EXCEPT ![r].version = @ + 1, ![r].data = PC,
                                          ![r].is_deleted = ~@], rid, u)
                    = GetRecord(records, rid, u)
    /\ \A p \in Procs :
          Done(p, "get") =>
            /\ result[p].kind = "record" <=> Owns(records, args[p].rid, args[p].user)
            /\ result[p].kind \in {"record", "notfound"}

C9_Witness ==
    \E p \in Procs :
        /\ Done(p, "get")
        /\ result[p].kind = "notfound"
        /\ args[p].rid \in DOMAIN records
        /\ records[args[p].rid].user_id # args[p].user

\* C10: an update_record, delete_record (soft or hard) or resolve_conflict of
\* a caller who does not own the record returns not-found and changes neither
\* the store nor the audit ledger; no step of a handler changes or removes a
\* record its caller does not own; list_records and get_pending_sync_records
\* return records of the given owner only.
C10_Step ==
    \A p \in Procs :
        LET a == args[p] IN
        /\ ( /\ Takes(p, "update_get") \/ Takes(p, "delete_get") \/ Takes(p, "resolve_get")
             /\ a.rid \in DOMAIN records
             /\ records[a.rid].user_id # a.user )
           => /\ result'[p] = NotFound
              /\ pc'[p] = "idle"
              /\ records' = records
              /\ audit' = audit
        /\ pc'[p] # pc[p] =>
              \A r \in DOMAIN records :
                  records[r].user_id # args'[p].user =>
                      r \in DOMAIN records' /\ records'[r] = records[r]
C10_Reads ==
    /\ \A a \in ListInputs : \A r \in ListMatch(records, a) : records[r].user_id = a.user
    /\ \A u \in Users : \A r \in PendingMatch(records, u) : records[r].user_id = u
    /\ \A p \in Procs :
          /\ Done(p, "list") =>
                \A i \in 1..Len(result[p].records) :
                    result[p].records[i].doc.user_id = args[p].user
          /\ Done(p, "pending") =>
                \A v \in result[p].records : v.doc.user_id = args[p].user
C10_OwnerOnly == [][C10_Step]_vars /\ []C10_Reads

C10_Witness ==
    \E p \in Procs :
        /\ Done(p, "delete")
        /\ ~args[p].soft
        /\ result[p] = NotFound
        /\ args[p].rid \in DOMAIN records
        /\ records[args[p].rid].user_id # args[p].user

\* the whole listing of owner `u` in one page
WholeList(store, u, incl) ==
    ListPage(store, ListArgs(u, "none", 1, MaxRecords + 1, incl))

\* the ids of the records in a page
PageIds(page) == {page[i].id : i \in 1..Len(page)}

\* C11: a soft-deleted record is not in what list_records returns to its owner
\* with include_deleted = false (whatever the type filter and the page), it
\* is in the listing with include_deleted = true, and get_record of its owner
\* still returns it, with is_deleted = true.
C11_SoftDeletedHiddenFromList ==
    /\ \A r \in DOMAIN records :
          records[r].is_deleted =>
            LET u == records[r].user_id IN
            /\ \A a \in ListInputs :
                  (a.user = u /\ ~a.include_deleted) => r \notin ListMatch(records, a)
            /\ r \notin PageIds(WholeList(records, u, FALSE))
            /\ r \in PageIds(WholeList(records, u, TRUE))
            /\ r \in ListMatch(records, ListArgs(u, records[r].record_type, 1, 1, TRUE))
            /\ GetRecord(records, r, u) = [kind |-> "record", record |-> View(records, r)]
            /\ GetRecord(records, r, u).record.doc.is_deleted = TRUE
    /\ \A p \in Procs :
          /\ (Done(p, "list") /\ ~args[p].include_deleted) =>
                \A i \in 1..Len(result[p].records) : ~result[p].records[i].doc.is_deleted
          /\ ( /\ Done(p, "list") /\ args[p].include_deleted
               /\ args[p].page = 1 /\ result[p].total <= args[p].page_size ) =>
                \A r \in DOMAIN records :
                    ( /\ records[r].user_id = args[p].user /\ records[r].is_deleted
                      /\ args[p].rtype \in {"none", records[r].record_type} )
                    => r \in PageIds(result[p].records)
          /\ (Done(p, "get") /\ Owns(records, args[p].rid, args[p].user)) =>
                result[p].record.doc.is_deleted = records[args[p].rid].is_deleted

C11_Witness ==
    \E p \in Procs :
        /\ Done(p, "list")
        /\ ~args[p].include_deleted
        /\ \E r \in DOMAIN records :
              /\ records[r].user_id = args[p].user
              /\ records[r].is_deleted
              /\ r \notin PageIds(result[p].records)

\* C12: an update_record with client_version > the stored version is accepted
\* and its write stores payload = the old payload with the keys of the patch
\* set to the patch's values (the other keys keep their old value), stores
\* version = client_version, and leaves owner, record_type, created_at,
\* created_by and is_deleted (and every other record) as they were.
C12_Step ==
    \A p \in Procs :
        LET a == args[p] IN
        /\ ( /\ Takes(p, "update_get")
             /\ Owns(records, a.rid, a.user)
             /\ a.cv > records[a.rid].version )
           => pc'[p] = "update_write" /\ records' = records
        /\ Takes(p, "update_write") =>
              /\ a.rid \in (DOMAIN records) \cap (DOMAIN records')
              /\ LET old == records[a.rid]
                     new == records'[a.rid]
                 IN /\ a.cv > old.version
                    /\ DOMAIN new.data = (DOMAIN old.data) \cup (DOMAIN a.data)
                    /\ \A k \in DOMAIN a.data : new.data[k] = a.data[k]
                    /\ \A k \in (DOMAIN old.data) \ (DOMAIN a.data) : new.data[k] = old.data[k]
                    /\ new.version = a.cv
                    /\ new.user_id = old.user_id
                    /\ new.record_type = old.record_type
                    /\ new.created_at = old.created_at
                    /\ new.created_by = old.created_by
                    /\ new.is_deleted = old.is_deleted
              /\ DOMAIN records' = DOMAIN records
              /\ \A r \in (DOMAIN records) \ {a.rid} : records'[r] = records[r]
C12_Done ==
    \A p \in Procs :
        (Done(p, "update") /\ result[p].kind = "record") =>
            /\ result[p].record = View(records, args[p].rid)
            /\ records[args[p].rid].version = args[p].cv
            /\ \A k \in DOMAIN args[p].data :
                  records[args[p].rid].data[k] = args[p].data[k]
C12_UpdateMergesPatch == [][C12_Step]_vars /\ []C12_Done

C12_Witness ==
    \E p \in Procs :
        /\ Done(p, "update")
        /\ result[p].kind = "record"
        /\ "a" \notin DOMAIN args[p].data
        /\ "a" \in DOMAIN result[p].record.doc.data
        /\ "b" \in DOMAIN result[p].record.doc.data

\* the audit entries about record `rid` with action `action`
Entries(log, rid, action) ==
    {i \in 1..Len(log) : log[i].record_id = rid /\ log[i].action = action}

\* `log2` is `log` with exactly one entry appended
OneAppended(log, log2) ==
    Len(log2) = Len(log) + 1 /\ SubSeq(log2, 1, Len(log)) = log

\* C13: a successful update_record appends exactly one audit entry, in its
\* audit step and in no other step; the entry has action=update, names the
\* record, and its timestamp is >= the updated_at the update stored.
C13_Step ==
    \A p \in Procs :
        LET a == args[p] IN
        /\ Takes(p, "update_audit") =>
              /\ OneAppended(audit, audit')
              /\ audit'[Len(audit')].action = "update"
              /\ audit'[Len(audit')].record_id = a.rid
              /\ audit'[Len(audit')].user_id = a.user
              /\ audit'[Len(audit')].data.updated_at = records[a.rid].updated_at
              /\ audit'[Len(audit')].timestamp >= records[a.rid].updated_at
        /\ (Takes(p, "update_get") \/ Takes(p, "update_write") \/ Takes(p, "update_reread"))
              => audit' = audit
        /\ (pc[p] = "idle" /\ args'[p].op = "update") => audit' = audit
C13_Done ==
    \A p \in Procs :
        (Done(p, "update") /\ result[p].kind = "record") =>
            /\ Len(audit) > 0
            /\ audit[Len(audit)].action = "update"
            /\ audit[Len(audit)].record_id = args[p].rid
            /\ audit[Len(audit)].timestamp >= result[p].record.doc.updated_at
            /\ Cardinality({i \in Entries(audit, args[p].rid, "update") :
                    audit[i].data.version = args[p].cv}) = 1
C13_UpdateAuditedOnce == [][C13_Step]_vars /\ []C13_Done

C13_Witness ==
    \E p \in Procs :
        /\ Done(p, "update")
        /\ result[p].kind = "record"
        /\ Cardinality(Entries(audit, args[p].rid, "update")) = 1
        /\ audit[Len(audit)].timestamp > result[p].record.doc.updated_at

\* no handler is between two awaits
Quiescent == \A p \in Procs : pc[p] = "idle"

\* C14: whenever no request is in flight (every request has returned, failed
\* or been given up), the state of every record is matched by the ledger: a
\* stored record has its create entry, an entry (create or update) with its
\* version unless it was resolved, a delete entry when it is soft-deleted and
\* a resolve_conflict entry when it was resolved; a record that was removed
\* has its hard_delete entry.
C14_RecordAndAuditTogether ==
    Quiescent =>
        \A r \in 1..(nextId - 1) :
            IF r \in DOMAIN records
            THEN /\ Entries(audit, r, "create") # {}
                 /\ records[r].is_deleted => Entries(audit, r, "delete") # {}
                 /\ records[r].conflict_resolved_at # NoTime =>
                        Entries(audit, r, "resolve_conflict") # {}
                 /\ records[r].conflict_resolved_at = NoTime =>
                        \E i \in Entries(audit, r, "create") \cup Entries(audit, r, "update") :
                            audit[i].data.version = records[r].version
            ELSE Entries(audit, r, "hard_delete") # {}

\* C15: when the add() of the audit entry fails after the record write, the
\* store keeps the write and the call does not end in an error: it goes on to
\* its normal success result.
C15_Step ==
    \A p \in Procs :
        (pc[p] \in AuditLabels /\ pc'[p] # pc[p] /\ audit' = audit) =>
            /\ records' = records
            /\ result'[p].kind # "error"
C15_AuditFailureStillSuccess == [][C15_Step]_vars

\* C16: no step removes or changes an audit entry: the ledger after a step is
\* the ledger before it, or that ledger with entries appended; the hard
\* delete of a record leaves the entries about that record in place.
C16_Step ==
    /\ Len(audit') >= Len(audit)
    /\ SubSeq(audit', 1, Len(audit)) = audit
    /\ \A p \in Procs :
          Takes(p, "delete_hard") =>
            \A act \in {"create", "update", "delete", "resolve_conflict"} :
                Entries(audit', args[p].rid, act) = Entries(audit, args[p].rid, act)
C16_AuditAppendOnly == [][C16_Step]_vars

C16_Witness ==
    \E p \in Procs :
        /\ Done(p, "delete")
        /\ ~args[p].soft
        /\ result[p].kind = "deleted"
        /\ args[p].rid \notin DOMAIN records
        /\ Entries(audit, args[p].rid, "create") # {}
        /\ Entries(audit, args[p].rid, "hard_delete") # {}

\* C17: a hard delete by the owner removes the document and nothing else, a
\* soft delete keeps it and sets is_deleted and deleted_at (and updated_at),
\* each then appends one audit entry, action=hard_delete or action=delete;
\* get_record, update_record, delete_record and resolve_conflict on an id
\* that has no document return not-found and change nothing.
C17_Step ==
    \A p \in Procs :
        LET a == args[p] IN
        /\ (Takes(p, "delete_get") /\ Owns(records, a.rid, a.user)) =>
              /\ pc'[p] = IF a.soft THEN "delete_soft" ELSE "delete_hard"
              /\ records' = records /\ audit' = audit
        /\ Takes(p, "delete_hard") =>
              /\ a.rid \in DOMAIN records
              /\ records' = Without(records, {a.rid})
              /\ audit' = audit
              /\ pc'[p] = "delete_audit"
        /\ Takes(p, "delete_soft") =>
              /\ a.rid \in (DOMAIN records) \cap (DOMAIN records')
              /\ DOMAIN records' = DOMAIN records
              /\ records'[a.rid].is_deleted = TRUE
              /\ records'[a.rid].deleted_at # NoTime
              /\ records'[a.rid].updated_at >= records'[a.rid].deleted_at
              /\ records' = [records EXCEPT ![a.rid] =
                                [@ EXCEPT !.is_deleted = TRUE,
                                          !.deleted_at = records'[a.rid].deleted_at,
                                          !.updated_at = records'[a.rid].updated_at]]
              /\ audit' = audit
              /\ pc'[p] = "delete_audit"
        /\ Takes(p, "delete_audit") =>
              /\ OneAppended(audit, audit')
              /\ audit'[Len(audit')].action = IF a.soft THEN "delete" ELSE "hard_delete"
              /\ audit'[Len(audit')].record_id = a.rid
              /\ records' = records
              /\ result'[p].kind = "deleted"
        /\ ( /\ Takes(p, "get") \/ Takes(p, "update_get")
                \/ Takes(p, "delete_get") \/ Takes(p, "resolve_get")
             /\ a.rid \notin DOMAIN records ) =>
              /\ result'[p] = NotFound
              /\ pc'[p] = "idle"
              /\ records' = records /\ audit' = audit
C17_Done ==
    \A p \in Procs :
        (Done(p, "delete") /\ result[p].kind = "deleted") =>
            IF args[p].soft
            THEN /\ Owns(records, args[p].rid, args[p].user)
                 /\ records[args[p].rid].is_deleted
                 /\ audit[Len(audit)].action = "delete"
            ELSE /\ args[p].rid \notin DOMAIN records
                 /\ Cardinality(Entries(audit, args[p].rid, "hard_delete")) = 1
C17_HardRemovesSoftKeeps == [][C17_Step]_vars /\ []C17_Done

\* a call on the id of a removed record has returned not-found
C17_Witness ==
    \E p \in Procs :
        /\ Done(p, "update") \/ Done(p, "resolve") \/ Done(p, "get") \/ Done(p, "delete")
        /\ result[p] = NotFound
        /\ args[p].rid \notin DOMAIN records
        /\ Entries(audit, args[p].rid, "hard_delete") # {}

\* C18: what list_records returns.  M is the set of the records of the given
\* owner, of the given type when one is given, not soft-deleted unless
\* include_deleted; the page holds records of M, each once, as they are
\* stored, at most page_size of them, in non-increasing updated_at, the i-th
\* of them at place (page-1)*page_size + i of M ordered by updated_at
\* descending; the page is short only when M ends; total = |M| and
\* has_more = (page * page_size < total).
C18_ListContract ==
    \A p \in Procs :
        Done(p, "list") =>
            LET a == args[p]
                res == result[p]
                page == res.records
                n == Len(page)
                M == {r \in DOMAIN records :
                        /\ records[r].user_id = a.user
                        /\ a.rtype = "none" \/ records[r].record_type = a.rtype
                        /\ a.include_deleted \/ ~records[r].is_deleted}
                offset == (a.page - 1) * a.page_size
                Newer(t) == Cardinality({r \in M : records[r].updated_at > t})
                NotOlder(t) == Cardinality({r \in M : records[r].updated_at >= t})
            IN /\ \A i \in 1..n : page[i].id \in M /\ page[i].doc = records[page[i].id]
               /\ \A i \in 1..n : \A j \in 1..n : i # j => page[i].id # page[j].id
               /\ n <= a.page_size
               /\ n = IF Cardinality(M) - offset >= a.page_size THEN a.page_size
                      ELSE IF Cardinality(M) > offset THEN Cardinality(M) - offset
                      ELSE 0
               /\ \A i \in 1..n : \A j \in 1..n :
                     i < j => page[i].doc.updated_at >= page[j].doc.updated_at
               /\ \A i \in 1..n :
                     /\ Newer(page[i].doc.updated_at) <= offset + i - 1
                     /\ NotOlder(page[i].doc.updated_at) >= offset + i
               /\ res.total = Cardinality(M)
               /\ res.has_more = (a.page * a.page_size < res.total)
               /\ res.page = a.page /\ res.page_size = a.page_size

\* a second page of one record, taken from three matching records
C18_Witness ==
    \E p \in Procs :
        /\ Done(p, "list")
        /\ args[p].page = 2
        /\ args[p].page_size = 1
        /\ Len(result[p].records) = 1
        /\ result[p].total = 3
        /\ result[p].has_more
        /\ \E r \in DOMAIN records :
              /\ records[r].user_id = args[p].user
              /\ records[r].updated_at > result[p].records[1].doc.updated_at
              /\ r < result[p].records[1].id

\* C19: every stored record has a version >= 1.
C19_VersionPositive ==
    \A r \in DOMAIN records : records[r].version >= 1

\* C20: no step changes the owner or the created_at of a stored record, and
\* a record stays under its id: what update_record and resolve_conflict
\* return is the record of the id they were called with, owned by the caller.
C20_Step ==
    \A r \in (DOMAIN records) \cap (DOMAIN records') :
        /\ records'[r].user_id = records[r].user_id
        /\ records'[r].created_at = records[r].created_at
C20_Done ==
    \A p \in Procs :
        ((Done(p, "update") \/ Done(p, "resolve")) /\ result[p].kind = "record") =>
            /\ result[p].record.id = args[p].rid
            /\ result[p].record.doc.user_id = args[p].user
            /\ result[p].record.doc.created_at <= result[p].record.doc.updated_at
C20_AnyPayload ==
    \A r \in DOMAIN records :
        LET rec == View(records, r)
            d == PKeys
            t == now
            upd == ApplyUpdate(records[r], UpdateFields(rec, d, records[r].version + 1, t))
            res == ApplyResolve(records[r],
                       ResolvedData(rec, ResolveArgs(records[r].user_id, r, 1, d), t, t))
        IN /\ upd.user_id = records[r].user_id
           /\ upd.created_at = records[r].created_at
           /\ res.user_id = records[r].user_id
           /\ res.created_at = records[r].created_at
C20_IdentityImmutable == [][C20_Step]_vars /\ []C20_Done /\ []C20_AnyPayload

C20_Witness ==
    \E p \in Procs :
        /\ Done(p, "update") \/ Done(p, "resolve")
        /\ result[p].kind = "record"
        /\ result[p].record.doc.updated_at > result[p].record.doc.created_at
        /\ \E i \in Entries(audit, args[p].rid, "create") :
              /\ audit[i].data.created_at = result[p].record.doc.created_at
              /\ audit[i].data.user_id = result[p].record.doc.user_id
              /\ audit[i].data.data # result[p].record.doc.data

\* C21: once a record has a deleted_at, no step changes it; a second soft
\* delete of the record keeps the deleted_at of the first.
C21_Step ==
    \A r \in (DOMAIN records) \cap (DOMAIN records') :
        records[r].deleted_at # NoTime => records'[r].deleted_at = records[r].deleted_at
C21_DeletedAtSetOnce == [][C21_Step]_vars

\* C22: get_pending_sync_records returns the records of the given owner whose
\* sync_status is pending, all of them and no other, as they are stored, and
\* neither its arrival nor its query changes a record or the audit ledger.
C22_Step ==
    \A p \in Procs :
        /\ (pc[p] = "idle" /\ pc'[p] # "idle" /\ args'[p].op = "pending") =>
              records' = records /\ audit' = audit
        /\ Takes(p, "pending_query") =>
              /\ records' = records
              /\ audit' = audit
              /\ result'[p].kind = "pending"
C22_Done ==
    \A p \in Procs :
        Done(p, "pending") =>
            /\ \A v \in result[p].records :
                  /\ v.id \in DOMAIN records
                  /\ v.doc = records[v.id]
                  /\ v.doc.user_id = args[p].user
                  /\ v.doc.sync_status = "pending"
            /\ \A r \in DOMAIN records :
                  (records[r].user_id = args[p].user /\ records[r].sync_status = "pending")
                  => \E v \in result[p].records : v.id = r
C22_PendingQuery == [][C22_Step]_vars /\ []C22_Done

C22_Witness ==
    \E p \in Procs :
        /\ Done(p, "pending")
        /\ result[p].records # {}
        /\ \E r \in DOMAIN records :
              records[r].user_id = args[p].user /\ records[r].sync_status # "pending"
        /\ \E r \in DOMAIN records :
              records[r].user_id # args[p].user /\ records[r].sync_status = "pending"

\* C26: a step that changes the health_records collection is a step of a
\* handler of the Record Store (create, update, delete, resolve).
C26_Step ==
    records' # records =>
        \E p \in Procs :
            /\ pc[p] # "idle"
            /\ pc'[p] # pc[p] \/ local'[p] # local[p]
            /\ args[p].op \in {"create", "update", "delete", "resolve"}
C23_Step ==
    \A p \in Procs :
        (Takes(p, "create_set") /\ args[p].cv > 1) =>
            \A r \in Siblings(records, args[p]) : records[r].version < args[p].cv
C23_CreateCheckAtomic == [][C23_Step]_vars

\* the highest version among the non-deleted records of the owner and type
\* of request `a`
Highest(store, a) == Max({store[r].version : r \in Siblings(store, a)})

\* the decision of update_record at its read, and of create_record at its
\* query, is accept iff client_version > the stored version
C24_Checked ==
    \A p \in Procs :
        LET a == args[p] IN
        /\ (Takes(p, "update_get") /\ Owns(records, a.rid, a.user)) =>
              (result'[p].kind = "conflict" <=> a.cv <= records[a.rid].version)
        /\ (Takes(p, "update_get") /\ Owns(records, a.rid, a.user)) =>
              (pc'[p] = "update_write" <=> a.cv > records[a.rid].version)
        /\ (Takes(p, "create_query") /\ Siblings(records, a) # {}) =>
              (result'[p].kind = "conflict" <=> a.cv <= Highest(records, a))
        /\ (Takes(p, "create_query") /\ Siblings(records, a) # {}) =>
              (pc'[p] = "create_set" <=> a.cv > Highest(records, a))

\* C24 (as claimed): with a prior version stored, create_record accepts iff
\* client_version > that version, as update_record does: no create goes to
\* its write without the check while its client_version is <= the prior
\* version.
C24_OrigStep ==
    /\ C24_Checked
    /\ \A p \in Procs :
          ( /\ pc[p] = "idle" /\ pc'[p] # "idle" /\ args'[p].op = "create"
            /\ Siblings(records, args'[p]) # {}
            /\ args'[p].cv <= Highest(records, args'[p]) )
          => pc'[p] = "create_query"
C24_AmendedStep ==
    /\ C24_Checked
    /\ \A p \in Procs :
          (pc[p] = "idle" /\ pc'[p] # "idle" /\ args'[p].op = "create") =>
              IF args'[p].cv > 1 THEN pc'[p] = "create_query" ELSE pc'[p] = "create_set"
ActionOf(a) ==
    IF a.op = "create" THEN "create"
    ELSE IF a.op = "update" THEN "update"
    ELSE IF a.op = "resolve" THEN "resolve_conflict"
    ELSE IF a.soft THEN "delete" ELSE "hard_delete"

\* C25: each call appends at most one audit entry, in its audit step, which
\* only a call that wrote its record reaches; the entry carries the action
\* of the operation and the id of the record; a call that returns Conflict
\* or not-found returns from its first step, so it appends none; when no
\* call is running every id has one create entry and, when its document
\* is gone, one hard_delete entry.
C25_Step ==
    \A p \in Procs :
        LET a == args[p] IN
        /\ (pc[p] \in AuditLabels /\ pc'[p] # pc[p]) =>
              /\ OneAppended(audit, audit')
              /\ audit'[Len(audit')].action = ActionOf(a)
              /\ audit'[Len(audit')].record_id = IF a.op = "create" THEN local[p].id ELSE a.rid
              /\ audit'[Len(audit')].user_id = a.user
              /\ records' = records
        /\ (pc[p] \notin AuditLabels /\ pc'[p] # pc[p]) => audit' = audit
        /\ (pc[p] # "idle" /\ pc'[p] = "idle" /\ result'[p].kind \in {"conflict", "notfound"}) =>
              /\ pc[p] \in {"create_query", "update_get", "delete_get", "resolve_get", "get"}
              /\ records' = records
C25_Done ==
    /\ \A p \in Procs :
          (Done(p, args[p].op) /\ result[p].kind \in {"created", "record", "deleted"}
             /\ args[p].op \in {"create", "update", "delete", "resolve"}) =>
              /\ Len(audit) > 0
              /\ audit[Len(audit)].action = ActionOf(args[p])
              /\ audit[Len(audit)].record_id =
                    IF args[p].op = "create" THEN result[p].id ELSE args[p].rid
    /\ Quiescent =>
          /\ Len(audit) <= calls
          /\ \A r \in 1..(nextId - 1) :
                /\ Cardinality(Entries(audit, r, "create")) = 1
                /\ Cardinality(Entries(audit, r, "hard_delete")) =
                      IF r \in DOMAIN records THEN 0 ELSE 1
C25_OneAuditPerMutation == [][C25_Step]_vars /\ []C25_Done

C25_Witness ==
    \E p \in Procs :
        /\ Done(p, "update")
        /\ result[p].kind = "conflict"
        /\ Len(audit) = 1
        /\ audit[1].action = "create"
        /\ audit[1].record_id = args[p].rid

\* C27: no step sets is_deleted of a stored record back to false; on a
\* soft-deleted record update_record is accepted when client_version > the
\* stored version and resolve_conflict is accepted always, and their writes
\* store the new payload and version and leave is_deleted true.
C27_Step ==
    /\ \A r \in (DOMAIN records) \cap (DOMAIN records') :
          records[r].is_deleted => records'[r].is_deleted
    /\ \A p \in Procs :
          LET a == args[p]
              deleted == Owns(records, a.rid, a.user) /\ records[a.rid].is_deleted
          IN /\ (Takes(p, "update_get") /\ deleted /\ a.cv > records[a.rid].version) =>
                   pc'[p] = "update_write"
             /\ (Takes(p, "resolve_get") /\ deleted) => pc'[p] = "resolve_write"
             /\ (Takes(p, "update_write") /\ deleted) =>
                   /\ records'[a.rid].version = a.cv
                   /\ \A k \in DOMAIN a.data : records'[a.rid].data[k] = a.data[k]
                   /\ records'[a.rid].is_deleted
             /\ (Takes(p, "resolve_write") /\ deleted) =>
                   /\ records'[a.rid].version = records[a.rid].version + 1
                   /\ records'[a.rid].data = a.data
                   /\ records'[a.rid].is_deleted
C27_SoftDeleteStays == [][C27_Step]_vars

C27_Witness ==
    \E p \in Procs :
        /\ Done(p, "update")
        /\ result[p].kind = "record"
        /\ result[p].record.doc.is_deleted
        /\ result[p].record.doc.version = args[p].cv
        /\ "b" \in DOMAIN result[p].record.doc.data

\* C28: an update_record or resolve_conflict that has written the record
\* and appended its audit entry does not return not-found.
C28_Step ==
    \A p \in Procs :
        (Takes(p, "update_reread") \/ Takes(p, "resolve_reread")) =>
            result'[p].kind # "notfound"
C28_NotFoundOnlyIfNothingWritten == [][C28_Step]_vars

\* C29: every stored record has sync_status = synced, so no record matches
\* the pending query and get_pending_sync_records returns nothing.
C29_AlwaysSynced ==
    /\ \A r \in DOMAIN records : records[r].sync_status = "synced"
    /\ \A u \in Users : PendingMatch(records, u) = {}
    /\ \A p \in Procs :
          /\ pc[p] \in {"create_set"} => local[p].record_data.sync_status = "synced"
          /\ pc[p] \in {"update_write"} => local[p].update_fields.sync_status = "synced"
          /\ pc[p] \in {"resolve_write"} => local[p].resolved_data.sync_status = "synced"
          /\ Done(p, "pending") => result[p].records = {}

C29_Witness ==
    \E p \in Procs :
        /\ Done(p, "pending")
        /\ result[p].records = {}
        /\ \E r \in DOMAIN records : records[r].user_id = args[p].user

\* C30: a consultation whose status is completed keeps that status in every
\* step, and a join_consultation that reads a completed consultation fails
\* with an error and changes nothing.
C30_Step ==
    /\ \A c \in (DOMAIN consultations) \cap (DOMAIN consultations') :
          consultations[c].status = "completed" =>
              consultations'[c].status = "completed"
    /\ \A p \in Procs :
          ( /\ Takes(p, "join_get")
            /\ args[p].consultation_id \in DOMAIN consultations
            /\ consultations[args[p].consultation_id].status
                  \in {"completed", "cancelled", "missed"} )
          => /\ result'[p].kind = "bad_request"
             /\ consultations' = consultations
C30_CompletedIsFinal == [][C30_Step]_vars

====
